---------------------------- MODULE Spec2Model ----------------------------
(***************************************************************************)
(* preemie-weight: the weight log (add_weight.py), its loader and the      *)
(* Fenton reference loader (plot_weight.py), and the axis-limit helper.    *)
(*                                                                         *)
(* Text is a sequence of characters, each character a one-element string;  *)
(* "sup2" stands for U+00B2 (SUPERSCRIPT TWO).  The alphabet of the model  *)
(* is the ASCII digits, "-", "+", ".", " ", "/", a few letters and "sup2"; *)
(* on that alphabet the parsers below accept exactly what Python's         *)
(* float(), int(), str.isdigit() and strptime('%Y-%m-%d') accept.          *)
(*                                                                         *)
(* A Python float is kept as a fixed-point integer, Scale units to one;    *)
(* a datetime as ticks, TicksPerDay to one day, counted from the proleptic *)
(* Gregorian ordinal (0001-01-01 is day 1), as datetime.toordinal does.    *)
(***************************************************************************)
EXTENDS Integers, Sequences, FiniteSets, TLC

VARIABLES
    store,       \* data/<file>: [exists, rows, open]; open: last line has no line end
    pc,          \* add_weight.main: where the process stands
    args,        \* add_weight.main: argparse's namespace [date, weight]
    date,        \* add_weight.main: local date
    weight,      \* add_weight.main: local weight
    prompts,     \* add_weight: rejections printed in this run
    runs,        \* add_weight: invocations so far
    loadedFile,  \* plot_weight: the file content load_data read
    observed,    \* plot_weight: what load_data returned
    dueDate,     \* plot_weight.main: due_date
    tables,      \* fenton_boys/<percentile>.csv, per percentile: [exists, rows]
    curves,      \* plot_weight: what load_fenton_data returned
    values,      \* plot_data: the series handed to compute_limits
    margin,      \* plot_data: margin_percent, in hundredths
    limits       \* plot_data: what compute_limits returned

vars == <<store, pc, args, date, weight, prompts, runs, loadedFile, observed,
          dueDate, tables, curves, values, margin, limits>>

storeVars == <<store, pc, args, date, weight, prompts, runs, loadedFile, observed>>
fentonVars == <<dueDate, tables, curves>>
limitVars == <<values, margin, limits>>

(***************************************************************************)
(* Bounds of the model.                                                    *)
(***************************************************************************)
MaxRows == 2        \* rows in the store before the first append
MaxRuns == 1        \* invocations of add_weight
MaxPrompts == 2     \* rejected interactive inputs per invocation
MaxTableRows == 2   \* rows of the reference table under test
MaxValues == 3      \* samples handed to compute_limits

\* Fixed-point resolution of a float: two decimal places.
Scale == 10 * 10
\* Ticks of a datetime per day; one hundredth of a week is then 7 ticks.
TicksPerDay == Scale

\* An optional value: None, or Some(v).
None == [some |-> FALSE]
Some(v) == [some |-> TRUE, val |-> v]
ValueError == [ok |-> FALSE, exc |-> "ValueError"]
OverflowError == [ok |-> FALSE, exc |-> "OverflowError"]
Ok(v) == [ok |-> TRUE, val |-> v]

(***************************************************************************)
(* Text helpers.                                                           *)
(***************************************************************************)
Digits == {"0", "1", "2", "3", "4", "5", "6", "7", "8", "9"}

DigitVal(c) ==
    CASE c = "0" -> 0 [] c = "1" -> 1 [] c = "2" -> 2 [] c = "3" -> 3
      [] c = "4" -> 4 [] c = "5" -> 5 [] c = "6" -> 6 [] c = "7" -> 7
      [] c = "8" -> 8 [] c = "9" -> 9

DigitChar(d) ==
    CASE d = 0 -> "0" [] d = 1 -> "1" [] d = 2 -> "2" [] d = 3 -> "3"
      [] d = 4 -> "4" [] d = 5 -> "5" [] d = 6 -> "6" [] d = 7 -> "7"
      [] d = 8 -> "8" [] d = 9 -> "9"

AllDigits(s) == \A i \in 1..Len(s) : s[i] \in Digits

RECURSIVE DigitsVal(_)
DigitsVal(s) ==
    IF s = <<>> THEN 0
    ELSE 10 * DigitsVal(SubSeq(s, 1, Len(s) - 1)) + DigitVal(s[Len(s)])

RECURSIVE NatStr(_)
NatStr(n) ==
    IF n < 10 THEN <<DigitChar(n)>>
    ELSE Append(NatStr(n \div 10), DigitChar(n % 10))

RECURSIVE Strip(_)
Strip(s) ==
    IF s = <<>> THEN s
    ELSE IF Head(s) = " " THEN Strip(Tail(s))
    ELSE IF s[Len(s)] = " " THEN Strip(SubSeq(s, 1, Len(s) - 1))
    ELSE s

\* The position of the first c in s, 0 if there is none.
RECURSIVE Find(_, _)
Find(s, c) ==
    IF s = <<>> THEN 0
    ELSE IF Head(s) = c THEN 1
    ELSE LET r == Find(Tail(s), c) IN IF r = 0 THEN 0 ELSE r + 1

(***************************************************************************)
(* float(str): optional blanks, an optional sign, then digits with an      *)
(* optional point, or a point followed by digits.  The value is in Scale   *)
(* units; texts of the model carry at most two decimals.                   *)
(***************************************************************************)
FracVal(f) ==
    IF f = <<>> THEN 0
    ELSE IF Len(f) = 1 THEN DigitVal(f[1]) * (Scale \div 10)
    ELSE DigitsVal(SubSeq(f, 1, 2))

UnsignedFloat(t) ==
    LET p == Find(t, ".")
        ip == IF p = 0 THEN t ELSE SubSeq(t, 1, p - 1)
        fp == IF p = 0 THEN <<>> ELSE SubSeq(t, p + 1, Len(t))
    IN  IF AllDigits(ip) /\ AllDigits(fp) /\ Len(ip) + Len(fp) > 0
        THEN Ok(DigitsVal(ip) * Scale + FracVal(fp))
        ELSE ValueError

float(s) ==
    LET t == Strip(s)
    IN  IF t = <<>> THEN ValueError
        ELSE IF Head(t) = "-"
             THEN LET u == UnsignedFloat(Tail(t))
                  IN IF u.ok THEN Ok(0 - u.val) ELSE ValueError
        ELSE IF Head(t) = "+" THEN UnsignedFloat(Tail(t))
        ELSE UnsignedFloat(t)

(***************************************************************************)
(* str(float): repr of a float of moderate size: the integer part, a       *)
(* point, and the decimals without trailing zeros (at least one).          *)
(***************************************************************************)
FloatStr(v) ==
    LET a == IF v < 0 THEN 0 - v ELSE v
        ip == NatStr(a \div Scale)
        f == a % Scale
        fp == IF f % 10 = 0 THEN <<DigitChar(f \div 10)>>
              ELSE <<DigitChar(f \div 10), DigitChar(f % 10)>>
    IN  (IF v < 0 THEN <<"-">> ELSE <<>>) \o ip \o <<".">> \o fp

(***************************************************************************)
(* str.isdigit() and int(str) on a text that passed isdigit: U+00B2 is a   *)
(* digit for isdigit and no decimal for int.                               *)
(***************************************************************************)
isdigit(s) == Len(s) > 0 /\ \A i \in 1..Len(s) : s[i] \in Digits \cup {"sup2"}

int(s) == IF Len(s) > 0 /\ AllDigits(s) THEN Ok(DigitsVal(s)) ELSE ValueError

(***************************************************************************)
(* datetime.strptime(s, '%Y-%m-%d').  %Y is four digits; %m is 1[0-2],     *)
(* 0[1-9] or [1-9]; %d is 3[01], [12]\d, 0[1-9], [1-9] or a blank and      *)
(* [1-9]; the whole text must be consumed; the day must exist.             *)
(***************************************************************************)
IsLeap(y) == (y % 4 = 0) /\ ((y % 100 # 0) \/ (y % 400 = 0))

DaysInMonth(y, m) ==
    IF m = 2 THEN (IF IsLeap(y) THEN 29 ELSE 28)
    ELSE IF m \in {4, 6, 9, 11} THEN 30 ELSE 31

RECURSIVE DaysBeforeMonth(_, _)
DaysBeforeMonth(y, m) ==
    IF m = 1 THEN 0 ELSE DaysBeforeMonth(y, m - 1) + DaysInMonth(y, m - 1)

Ordinal(y, m, d) ==
    LET p == y - 1
    IN  p * 365 + p \div 4 - p \div 100 + p \div 400 + DaysBeforeMonth(y, m) + d

MonthText(t) ==
    \/ Len(t) = 2 /\ t[1] = "1" /\ t[2] \in {"0", "1", "2"}
    \/ Len(t) = 2 /\ t[1] = "0" /\ t[2] \in Digits \ {"0"}
    \/ Len(t) = 1 /\ t[1] \in Digits \ {"0"}

DayText(t) ==
    \/ Len(t) = 2 /\ t[1] = "3" /\ t[2] \in {"0", "1"}
    \/ Len(t) = 2 /\ t[1] \in {"1", "2"} /\ t[2] \in Digits
    \/ Len(t) = 2 /\ t[1] = "0" /\ t[2] \in Digits \ {"0"}
    \/ Len(t) = 1 /\ t[1] \in Digits \ {"0"}
    \/ Len(t) = 2 /\ t[1] = " " /\ t[2] \in Digits \ {"0"}

strptime(s) ==
    IF Len(s) < 8 \/ ~AllDigits(SubSeq(s, 1, 4)) \/ s[5] # "-" THEN ValueError
    ELSE LET rest == SubSeq(s, 6, Len(s))
             p == Find(rest, "-")
             mt == SubSeq(rest, 1, p - 1)
             dt == SubSeq(rest, p + 1, Len(rest))
         IN  IF p = 0 \/ ~MonthText(mt) \/ ~DayText(dt) THEN ValueError
             ELSE LET y == DigitsVal(SubSeq(s, 1, 4))
                      m == DigitsVal(mt)
                      d == DigitsVal(Strip(dt))
                  IN  IF y < 1 \/ d > DaysInMonth(y, m) THEN ValueError
                      ELSE Ok(Ordinal(y, m, d) * TicksPerDay)

(***************************************************************************)
(* Texts of the model.                                                     *)
(***************************************************************************)
D_Jan01 == <<"2", "0", "2", "4", "-", "0", "1", "-", "0", "1">>
D_Feb01 == <<"2", "0", "2", "4", "-", "0", "2", "-", "0", "1">>
D_Feb30 == <<"2", "0", "2", "4", "-", "0", "2", "-", "3", "0">>
D_Short == <<"2", "0", "2", "4", "-", "3", "-", "5">>
D_Slash == <<"0", "1", "/", "0", "2", "/", "2", "0", "2", "4">>
W_2500 == <<"2", "5", "0", "0">>
W_2600 == <<"2", "6", "0", "0">>
W_Half == <<"2", "6", "0", "0", ".", "5">>
W_Zero == <<"0">>
W_Neg == <<"-", "5">>
W_Abc == <<"a", "b", "c">>
W_Sup2 == <<"sup2">>
Empty == <<>>

(***************************************************************************)
(* The store: a csv file as its rows (csv.reader's view: a blank line is   *)
(* the empty row) and whether its last line lacks the line end.            *)
(***************************************************************************)
NoFile == [exists |-> FALSE, rows |-> <<>>, open |-> FALSE]
File(rows, open) == [exists |-> TRUE, rows |-> rows, open |-> open]

\* csv.writer.writerow on a file opened with mode 'a': the text
\* "f1,f2\r\n" goes to the end of the file, creating it if need be; after a
\* last line without line end it continues that line.
writerow(st, row) ==
    IF ~st.exists THEN File(<<row>>, FALSE)
    ELSE IF st.open
         THEN LET n == Len(st.rows)
                  last == st.rows[n]
                  k == Len(last)
                  joined == SubSeq(last, 1, k - 1) \o <<last[k] \o row[1]>> \o Tail(row)
              IN  File(SubSeq(st.rows, 1, n - 1) \o <<joined>>, FALSE)
         ELSE File(Append(st.rows, row), FALSE)

(***************************************************************************)
(* plot_weight.load_data                                                   *)
(***************************************************************************)
NoLoad == [dates |-> <<>>, weights |-> <<>>, log |-> <<>>]
LogEntry(level, what, i) == [level |-> level, what |-> what, row |-> i]

\* One pass of the loop body, lines 42-51, on row i.
load_data_row(row, i, acc) ==
    IF Len(row) = 2
    THEN LET d == strptime(row[1])
             w == float(row[2])
         IN  IF d.ok /\ w.ok
             THEN [acc EXCEPT !.dates = Append(@, d.val), !.weights = Append(@, w.val)]
             ELSE [acc EXCEPT !.log = Append(@, LogEntry("warning", "skip", i))]
    ELSE acc

RECURSIVE load_data_rows(_, _, _)
load_data_rows(rows, i, acc) ==
    IF i > Len(rows) THEN acc
    ELSE load_data_rows(rows, i + 1, load_data_row(rows[i], i, acc))

\* Lines 56-60: no sample at all is reported and returned as nothing.
load_data_result(r) ==
    IF r.dates = <<>>
    THEN [outcome |-> "returned", dates |-> <<>>, weights |-> <<>>,
          log |-> Append(r.log, LogEntry("warning", "nodata", 0))]
    ELSE [outcome |-> "returned", dates |-> r.dates, weights |-> r.weights,
          log |-> r.log]

\* A load_data without its except clause: open()'s FileNotFoundError leaves it.
load_data_uncaught(st) ==
    [outcome |-> "FileNotFoundError", dates |-> <<>>, weights |-> <<>>, log |-> <<>>]

\* Lines 52-54: open() raised FileNotFoundError.
load_data_notfound(st) ==
    [outcome |-> "returned", dates |-> <<>>, weights |-> <<>>,
     log |-> <<LogEntry("error", "notfound", 0)>>]

load_data(st) ==
    IF ~st.exists THEN load_data_notfound(st)
    ELSE load_data_result(load_data_rows(st.rows, 1, NoLoad))

(***************************************************************************)
(* add_weight                                                              *)
(***************************************************************************)
validate_date(date_str) == strptime(date_str).ok

\* A validate_weight that compares with >= instead of >.
validate_weight_zero(weight_str) ==
    IF isdigit(weight_str)
    THEN LET w == int(weight_str)
         IN  IF ~w.ok THEN ValueError
             ELSE IF w.val >= 0 THEN Ok(TRUE) ELSE Ok(FALSE)
    ELSE Ok(FALSE)

\* Ok(TRUE), Ok(FALSE), or the ValueError int() raises.
validate_weight(weight_str) ==
    IF isdigit(weight_str)
    THEN LET w == int(weight_str)
         IN  IF ~w.ok THEN ValueError
             ELSE IF w.val > 0 THEN Ok(TRUE) ELSE Ok(FALSE)
    ELSE Ok(FALSE)

ArgDates == {None, Some(D_Jan01), Some(D_Feb30)}
ArgWeights == {None, Some(W_2500), Some(W_Abc)}
DateInputs == {D_Feb01, D_Feb30, D_Slash, Empty}
WeightInputs == {W_2600, W_Zero, W_Neg, W_Half, W_Sup2, Empty}

Stopped == {"idle", "done", "usage", "crashed"}

\* Lines 73-79: the row goes to the store and main returns.
WriteRow(d, w) ==
    /\ store' = writerow(store, <<d, w>>)
    /\ date' = d
    /\ weight' = w
    /\ pc' = "done"

\* Lines 63-71, entered with the date d settled and n rejections printed.
WeightBranch(a, d, n) ==
    IF a.weight.some /\ a.weight.val # 0
    THEN LET weight_str == FloatStr(a.weight.val)
             v == validate_weight(weight_str)
         IN  IF ~v.ok
             THEN /\ pc' = "crashed"
                  /\ date' = d
                  /\ weight' = Empty
                  /\ prompts' = n
                  /\ UNCHANGED store
             ELSE IF v.val
                  THEN WriteRow(d, weight_str) /\ prompts' = n
                  ELSE /\ pc' = "prompt_weight"
                       /\ date' = d
                       /\ weight' = Empty
                       /\ prompts' = n + 1
                       /\ UNCHANGED store
    ELSE /\ pc' = "prompt_weight"
         /\ date' = d
         /\ weight' = Empty
         /\ prompts' = n
         /\ UNCHANGED store

\* Lines 47-61: argparse, then the date from the command line if it is valid.
MainStart ==
    /\ pc \in Stopped
    /\ runs < MaxRuns
    /\ \E ad \in ArgDates, aw \in ArgWeights :
          /\ ad = None => aw = None
          /\ LET w == IF aw.some THEN float(aw.val) ELSE Ok(0)
             IN  IF ~w.ok
                 THEN /\ pc' = "usage"
                      /\ args' = [date |-> None, weight |-> None]
                      /\ date' = Empty /\ weight' = Empty /\ prompts' = 0
                      /\ UNCHANGED store
                 ELSE /\ args' = [date |-> ad,
                                  weight |-> IF aw.some THEN Some(w.val) ELSE None]
                      /\ IF ad.some /\ ad.val # Empty
                         THEN IF validate_date(ad.val)
                              THEN WeightBranch(args', ad.val, 0)
                              ELSE /\ pc' = "prompt_date"
                                   /\ date' = Empty /\ weight' = Empty /\ prompts' = 1
                                   /\ UNCHANGED store
                         ELSE /\ pc' = "prompt_date"
                              /\ date' = Empty /\ weight' = Empty /\ prompts' = 0
                              /\ UNCHANGED store
    /\ runs' = runs + 1
    /\ UNCHANGED <<loadedFile, observed>>

\* get_valid_date, lines 23-27: one input() and its validation.
InputDate ==
    /\ pc = "prompt_date"
    /\ \E date_str \in DateInputs :
          IF validate_date(date_str)
          THEN WeightBranch(args, date_str, prompts)
          ELSE /\ prompts < MaxPrompts
               /\ prompts' = prompts + 1
               /\ UNCHANGED <<store, pc, date, weight>>
    /\ UNCHANGED <<args, runs, loadedFile, observed>>

\* get_valid_weight, lines 37-41: one input() and its validation.
InputWeight ==
    /\ pc = "prompt_weight"
    /\ \E weight_str \in WeightInputs :
          LET v == validate_weight(weight_str)
          IN  IF ~v.ok
              THEN pc' = "crashed" /\ UNCHANGED <<store, date, weight, prompts>>
              ELSE IF v.val
                   THEN WriteRow(date, weight_str) /\ UNCHANGED prompts
                   ELSE /\ prompts < MaxPrompts
                        /\ prompts' = prompts + 1
                        /\ UNCHANGED <<store, pc, date, weight>>
    /\ UNCHANGED <<args, runs, loadedFile, observed>>

\* plot_weight.main, line 155: the store is read, between runs of add_weight.
LoadData ==
    /\ pc \in Stopped
    /\ loadedFile' = store
    /\ observed' = load_data(store)
    /\ UNCHANGED <<store, pc, args, date, weight, prompts, runs>>

(***************************************************************************)
(* The stores the model starts from: no file, or up to MaxRows rows, well  *)
(* formed or not, the last line with or without its line end.              *)
(***************************************************************************)
StoreRows ==
    { <<D_Jan01, W_2500>>, <<D_Short, W_Half>>, <<D_Feb01>>, <<D_Feb30, W_2600>>,
      <<D_Feb01, W_Abc>>, <<D_Feb01, W_Neg>>, <<>> }

SeqsUpTo(S, n) == UNION { [1..k -> S] : k \in 0..n }

Stores ==
    {NoFile}
      \cup { File(rows, FALSE) : rows \in SeqsUpTo(StoreRows, MaxRows) }
      \cup { File(rows, TRUE) :
               rows \in { r \in SeqsUpTo(StoreRows, MaxRows) :
                            r # <<>> /\ r[Len(r)] # <<>> } }

NotLoaded == [outcome |-> "none", dates |-> <<>>, weights |-> <<>>, log |-> <<>>]

InitStore ==
    /\ store \in Stores
    /\ pc = "idle"
    /\ args = [date |-> None, weight |-> None]
    /\ date = Empty
    /\ weight = Empty
    /\ prompts = 0
    /\ runs = 0
    /\ loadedFile = NoFile
    /\ observed = NotLoaded

(***************************************************************************)
(* plot_weight.load_fenton_data                                            *)
(***************************************************************************)
Percentiles == <<"3%", "10%", "50%", "90%", "97%">>
Labels == {Percentiles[i] : i \in 1..Len(Percentiles)}

\* Kilograms to grams, line 84; the weeks of a term, line 85.
GramsPerKg == 1000
TermWeeks == 40

\* datetime.min and datetime.max, in ticks.
MinDateTime == Ordinal(1, 1, 1) * TicksPerDay
MaxDateTime == Ordinal(9999, 12, 31) * TicksPerDay + (TicksPerDay - 1)

\* timedelta(weeks=w), w in Scale units, as ticks.
timedelta_weeks(w) == w * 7 * (TicksPerDay \div Scale)

\* datetime - timedelta: OverflowError ("date value out of range") outside
\* datetime.min .. datetime.max.
datetime_sub(d, delta) ==
    IF d - delta < MinDateTime \/ d - delta > MaxDateTime THEN OverflowError
    ELSE Ok(d - delta)

\* Line 85 and lines 86-87: the sample at the moved date, or the
\* OverflowError of the date arithmetic.
fenton_place(grams, moved) ==
    IF moved.ok THEN Ok([date |-> moved.val, weight |-> grams]) ELSE OverflowError

\* A conversion that counts the weeks from conception instead of the weeks
\* left to term.
fenton_convert_age(due_date, g, w) ==
    IF ~g.ok \/ ~w.ok THEN ValueError
    ELSE fenton_place(GramsPerKg * w.val,
                      datetime_sub(due_date, timedelta_weeks(g.val)))

\* Lines 83-85, g and w being what float() made of the two fields: a
\* ValueError of float() comes first.
fenton_convert(due_date, g, w) ==
    IF ~g.ok \/ ~w.ok THEN ValueError
    ELSE fenton_place(GramsPerKg * w.val,
                      datetime_sub(due_date,
                                   timedelta_weeks(TermWeeks * Scale - g.val)))

fenton_sample(due_date, row) == fenton_convert(due_date, float(row[1]), float(row[2]))

\* Lines 86-89 with r the outcome of lines 83-85 on row i; raised: the
\* exception that leaves the loops, "" if none.
fenton_append(acc, label, i, r) ==
    IF r.ok
    THEN [acc EXCEPT !.dates = Append(@, r.val.date),
                     !.weights = Append(@, r.val.weight)]
    ELSE IF r.exc = "ValueError"
         THEN [acc EXCEPT !.log = Append(@, LogEntry("warning", label, i))]
         ELSE [acc EXCEPT !.raised = r.exc]

\* One pass of the inner loop body, lines 80-89, on row i.
fenton_row(due_date, label, row, i, acc) ==
    IF Len(row) = 2 THEN fenton_append(acc, label, i, fenton_sample(due_date, row))
    ELSE acc

RECURSIVE fenton_rows(_, _, _, _, _)
fenton_rows(due_date, label, rows, i, acc) ==
    IF i > Len(rows) \/ acc.raised # "" THEN acc
    ELSE fenton_rows(due_date, label, rows, i + 1,
                     fenton_row(due_date, label, rows[i], i, acc))

\* The end of one pass of the outer loop: the curve r enters the mapping,
\* or the exception a row raised ends the call.
fenton_close(acc, label, r) ==
    IF r.raised # ""
    THEN [outcome |-> r.raised, data |-> acc.data, log |-> r.log]
    ELSE [outcome |-> acc.outcome,
          data |-> acc.data @@ (label :> [dates |-> r.dates, weights |-> r.weights]),
          log |-> r.log]

\* One pass of the outer loop, lines 74-91, for one percentile.
fenton_table(due_date, tabs, label, acc) ==
    IF ~tabs[label].exists
    THEN [acc EXCEPT !.log = Append(@, LogEntry("error", label, 0))]
    ELSE fenton_close(acc, label,
             fenton_rows(due_date, label, tabs[label].rows, 1,
                         [dates |-> <<>>, weights |-> <<>>, log |-> acc.log,
                          raised |-> ""]))

RECURSIVE fenton_tables(_, _, _, _)
fenton_tables(due_date, tabs, k, acc) ==
    IF k > Len(Percentiles) \/ acc.outcome # "returned" THEN acc
    ELSE fenton_tables(due_date, tabs, k + 1,
                       fenton_table(due_date, tabs, Percentiles[k], acc))

\* Line 93, or the exception: an exception leaves no mapping behind.
fenton_return(r) ==
    IF r.outcome = "returned" THEN r
    ELSE [outcome |-> r.outcome, data |-> <<>>, log |-> r.log]

load_fenton_data(due_date, tabs) ==
    fenton_return(fenton_tables(due_date, tabs, 1,
                      [outcome |-> "returned", data |-> <<>>, log |-> <<>>]))

LoadFenton ==
    /\ curves.outcome = "none"
    /\ curves' = load_fenton_data(dueDate, tables)
    /\ UNCHANGED <<dueDate, tables>>

\* The plot process ends; the next one loads again.
PlotExit ==
    /\ curves.outcome # "none"
    /\ curves' = [outcome |-> "none", data |-> <<>>, log |-> <<>>]
    /\ UNCHANGED <<dueDate, tables>>

T_40 == <<"4", "0">>
T_38 == <<"3", "8">>
T_38h == <<"3", "8", ".", "5">>
T_41h == <<"4", "1", ".", "5">>
T_24 == <<"2", "4">>
T_Far == <<"-", "1", "1", "0", "0", "0", "0">>
K_35 == <<"3", ".", "5">>
K_32 == <<"3", ".", "2">>
K_325 == <<"3", ".", "2", "5">>
K_39 == <<"3", ".", "9">>
K_1 == <<"1">>
DueJun01 == <<"2", "0", "2", "4", "-", "0", "6", "-", "0", "1">>
DueFeb29 == <<"2", "0", "2", "4", "-", "0", "2", "-", "2", "9">>
May18 == <<"2", "0", "2", "4", "-", "0", "5", "-", "1", "8">>

FentonRows ==
    { <<T_40, K_35>>, <<T_38, K_32>>, <<T_38h, K_325>>, <<T_41h, K_39>>,
      <<T_38, W_Abc>>, <<T_24>>, <<T_Far, K_1>> }

\* The table of a percentile that is not the one under test.
DefaultTable(label) ==
    CASE label = "3%" -> <<<<T_38, <<"2", ".", "3">>>>, <<T_40, <<"2", ".", "7">>>>>>
      [] label = "10%" -> <<<<T_38, <<"2", ".", "6">>>>, <<T_40, <<"3", ".", "0">>>>>>
      [] label = "50%" -> <<<<T_38, K_32>>, <<T_40, K_35>>>>
      [] label = "90%" -> <<<<T_38, <<"3", ".", "8">>>>, <<T_40, <<"4", ".", "2">>>>>>
      [] label = "97%" -> <<<<T_38, <<"4", ".", "1">>>>, <<T_40, <<"4", ".", "5">>>>>>

NoTable == [exists |-> FALSE, rows |-> <<>>]

\* The percentiles whose table takes every content of the bound: the first
\* of the loop and one in its middle.
TestedLabels == {"3%", "50%"}

InitFenton ==
    /\ \E t \in {DueJun01, DueFeb29} : dueDate = strptime(t).val
    /\ \E present \in SUBSET Labels, hot \in TestedLabels,
          rows \in SeqsUpTo(FentonRows, MaxTableRows) :
          tables = [l \in Labels |->
                      IF l \notin present THEN NoTable
                      ELSE [exists |-> TRUE,
                            rows |-> IF l = hot THEN rows ELSE DefaultTable(l)]]
    /\ curves = [outcome |-> "none", data |-> <<>>, log |-> <<>>]

(***************************************************************************)
(* plot_weight.plot_data.compute_limits.  values in Scale units,           *)
(* margin_percent in hundredths, the limits in hundredths of Scale units.  *)
(***************************************************************************)
RECURSIVE max(_)
max(vs) ==
    IF Len(vs) = 1 THEN vs[1]
    ELSE LET m == max(Tail(vs)) IN IF m > Head(vs) THEN m ELSE Head(vs)

RECURSIVE min(_)
min(vs) ==
    IF Len(vs) = 1 THEN vs[1]
    ELSE LET m == min(Tail(vs)) IN IF m < Head(vs) THEN m ELSE Head(vs)

PerCent == 10 * 10

\* A compute_limits whose margin is a share of the maximum, not of the range.
compute_limits_of_max(vs, margin_percent) ==
    LET m == max(vs) * margin_percent
    IN  <<min(vs) * PerCent - m, max(vs) * PerCent + m>>

compute_limits(vs, margin_percent) ==
    LET range_value == max(vs) - min(vs)
        m == range_value * margin_percent
    IN  <<min(vs) * PerCent - m, max(vs) * PerCent + m>>

ComputeLimits ==
    /\ limits = <<>>
    /\ limits' = compute_limits(values, margin)
    /\ UNCHANGED <<values, margin>>

\* plot_data returns; the next call gets its own series.
PlotDone ==
    /\ limits # <<>>
    /\ limits' = <<>>
    /\ UNCHANGED <<values, margin>>

\* Lines 133-134: the date axis with 0.05, the weight axis with 0.10.
Margins == {5, 10}
SeriesValues == {10 * Scale, 20 * Scale, 30 * Scale, 2500 * Scale + 50}

InitLimits ==
    /\ values \in SeqsUpTo(SeriesValues, MaxValues) \ {<<>>}
    /\ margin \in Margins
    /\ limits = <<>>

IdleStore ==
    /\ store = NoFile
    /\ pc = "idle"
    /\ args = [date |-> None, weight |-> None]
    /\ date = Empty
    /\ weight = Empty
    /\ prompts = 0
    /\ runs = 0
    /\ loadedFile = NoFile
    /\ observed = NotLoaded

IdleFenton ==
    /\ dueDate = 0
    /\ tables = [l \in Labels |-> NoTable]
    /\ curves = [outcome |-> "none", data |-> <<>>, log |-> <<>>]

IdleLimits == values = <<>> /\ margin = 0 /\ limits = <<>>

(***************************************************************************)
(* Spec: the store, add_weight and load_data.                              *)
(***************************************************************************)
Init == InitStore /\ IdleFenton /\ IdleLimits

Next ==
    \/ MainStart /\ UNCHANGED <<fentonVars, limitVars>>
    \/ InputDate /\ UNCHANGED <<fentonVars, limitVars>>
    \/ InputWeight /\ UNCHANGED <<fentonVars, limitVars>>
    \/ LoadData /\ UNCHANGED <<fentonVars, limitVars>>

Spec == Init /\ [][Next]_vars

(***************************************************************************)
(* SpecFenton: the reference tables and load_fenton_data.                  *)
(***************************************************************************)
NextFenton ==
    \/ LoadFenton /\ UNCHANGED <<storeVars, limitVars>>
    \/ PlotExit /\ UNCHANGED <<storeVars, limitVars>>

InitF == IdleStore /\ InitFenton /\ IdleLimits

SpecFenton == InitF /\ [][NextFenton]_vars

(***************************************************************************)
(* SpecLimits: compute_limits on every series of the bound.                *)
(***************************************************************************)
NextLimits ==
    \/ ComputeLimits /\ UNCHANGED <<storeVars, fentonVars>>
    \/ PlotDone /\ UNCHANGED <<storeVars, fentonVars>>

InitL == IdleStore /\ IdleFenton /\ InitLimits

SpecLimits == InitL /\ [][NextLimits]_vars

(***************************************************************************)
(* The claims.                                                             *)
(***************************************************************************)
\* A row the loaders are meant to keep: two fields that both parse.
StoreRowParses(row) == Len(row) = 2 /\ strptime(row[1]).ok /\ float(row[2]).ok
TableRowParses(row) == Len(row) = 2 /\ float(row[1]).ok /\ float(row[2]).ok

\* How many rows of a table have two fields that both parse.
ParsedRows(rows) == Cardinality({i \in 1..Len(rows) : TableRowParses(rows[i])})

\* C1: a load never aborts because of a row: load_fenton_data returns, and
\* each table's curve holds one sample for each row with exactly two fields
\* that both parse, and none for any other row.
C1_LoadNeverAborts ==
    curves.outcome # "none" =>
       /\ curves.outcome = "returned"
       /\ \A l \in Labels :
             tables[l].exists =>
                Len(curves.data[l].dates) = ParsedRows(tables[l].rows)

\* C2: round trip: once add_weight has written (date, weight), a load of the
\* store returns the samples it returned before, in the same order, and
\* then one sample with that date and that weight.
C2_RoundTrip ==
    [][store' # store =>
          /\ load_data(store').dates
               = Append(load_data(store).dates, strptime(date').val)
          /\ load_data(store').weights
               = Append(load_data(store).weights, DigitsVal(weight') * Scale)]_vars

\* C3: an append adds exactly one row at the end of the store and leaves
\* every row that was there unchanged, in content and position.
C3_AppendOneRow ==
    [][store' # store =>
          /\ Len(store'.rows) = Len(store.rows) + 1
          /\ SubSeq(store'.rows, 1, Len(store.rows)) = store.rows]_vars

\* C4: the load of a store that does not exist returns the empty series
\* and raises nothing.
C4_MissingStoreEmpty ==
    (observed.outcome # "none" /\ ~loadedFile.exists) =>
       /\ observed.outcome = "returned"
       /\ observed.dates = <<>>
       /\ observed.weights = <<>>

C4_Witness ==
    /\ observed.outcome = "returned"
    /\ ~loadedFile.exists
    /\ observed.dates = <<>>

\* The k-th row of rows that has two fields which both parse.
RECURSIVE KeptRows(_)
KeptRows(rows) ==
    IF rows = <<>> THEN <<>>
    ELSE IF TableRowParses(Head(rows)) THEN <<Head(rows)>> \o KeptRows(Tail(rows))
    ELSE KeptRows(Tail(rows))

\* What C5 says of the sample of row (g, w): its date lies (40 - g) weeks
\* before the due date, its weight is 1000 w.
Converted(sample, due, row) ==
    LET g == float(row[1]).val
        w == float(row[2]).val
    IN  /\ sample.date + 7 * (TicksPerDay \div Scale) * (40 * Scale - g) = due
        /\ sample.weight = 1000 * w
        /\ (g = 40 * Scale => sample.date = due)
        /\ (g < 40 * Scale => sample.date < due)
        /\ (row = <<T_38, K_32>> /\ due = strptime(DueJun01).val =>
              sample.date = strptime(May18).val /\ sample.weight = 3200 * Scale)

\* A datetime can hold the date (40 - g) weeks before the due date.
Holds(due, g) ==
    /\ due - 7 * (TicksPerDay \div Scale) * (40 * Scale - g) >= MinDateTime
    /\ due - 7 * (TicksPerDay \div Scale) * (40 * Scale - g) <= MaxDateTime

C6_MissingTablesTolerated ==
    curves.outcome # "none" =>
       /\ curves.outcome = "returned"
       /\ DOMAIN curves.data = {l \in Labels : tables[l].exists}
       /\ \A l \in DOMAIN curves.data :
             /\ curves.data[l].dates
                  = fenton_rows(dueDate, l, tables[l].rows, 1,
                                [dates |-> <<>>, weights |-> <<>>, log |-> <<>>,
                                 raised |-> ""]).dates
             /\ curves.data[l].weights
                  = fenton_rows(dueDate, l, tables[l].rows, 1,
                                [dates |-> <<>>, weights |-> <<>>, log |-> <<>>,
                                 raised |-> ""]).weights

\* C7: a diagnostic is emitted for every row a load skips: every row of the
\* file read that has at least one field and yields no sample has a log
\* entry of its own.
C7_EverySkipLogged ==
    observed.outcome = "returned" =>
       \A i \in 1..Len(loadedFile.rows) :
          (Len(loadedFile.rows[i]) > 0 /\ ~StoreRowParses(loadedFile.rows[i])) =>
             \E k \in 1..Len(observed.log) :
                observed.log[k].what = "skip" /\ observed.log[k].row = i

\* C8: every sample load_data returns has a weight > 0.
C8_WeightsPositive ==
    \A i \in 1..Len(observed.weights) : observed.weights[i] > 0

\* The least and the greatest value of a series, by their definition.
Least(vs) ==
    CHOOSE x \in {vs[i] : i \in 1..Len(vs)} : \A j \in 1..Len(vs) : x <= vs[j]
Greatest(vs) ==
    CHOOSE x \in {vs[i] : i \in 1..Len(vs)} : \A j \in 1..Len(vs) : x >= vs[j]

\* C9: compute_limits returns (min - m range, max + m range) with
\* range = max - min; ([10, 20, 30], 0.1) gives (8, 32); for a series of one
\* sample both limits are that sample.
C9_Limits ==
    limits # <<>> =>
       /\ limits[1] = Least(values) * 100
                        - margin * (Greatest(values) - Least(values))
       /\ limits[2] = Greatest(values) * 100
                        + margin * (Greatest(values) - Least(values))
       /\ (Len(values) = 1 =>
              limits[1] = values[1] * 100 /\ limits[2] = values[1] * 100)
       /\ (values = <<10 * Scale, 20 * Scale, 30 * Scale>> /\ margin = 10 =>
              limits = <<8 * Scale * 100, 32 * Scale * 100>>)

C9_Witness ==
    /\ values = <<10 * Scale, 20 * Scale, 30 * Scale>>
    /\ margin = 10
    /\ limits = <<8 * Scale * 100, 32 * Scale * 100>>

=============================================================================
